---- MODULE Spec2Model ----
(***************************************************************************)
(* A model of rusticengine.cpp: main() initialises SDL, a window and a     *)
(* renderer, then runs the frame loop (poll events, move the camera,       *)
(* project the 8 cube vertices, draw 12 lines, present, sleep) until a     *)
(* quit event, and tears the three resources down.                         *)
(*                                                                         *)
(* Numbers.  The program computes in single-precision floats.  The model   *)
(* uses fixed point: a length is an integer count of 1/Scale units, and    *)
(* yaw and pitch are integer counts of rotSpeed (0.05 rad) steps, the only *)
(* values the program ever gives them.  cos and sin of k steps come from   *)
(* tables rounded to 1/Scale.  Products and quotients truncate toward      *)
(* zero.  Float rounding error is not modelled.                            *)
(***************************************************************************)
EXTENDS Integers, Sequences, FiniteSets, TLC

(* ------------------------------ bounds -------------------------------- *)
\* loop iterations explored under Spec and SpecTaps
MaxFrames == 2
\* input events delivered in one run under Spec and SpecHold
MaxEvents == 2
\* input events delivered in one run under SpecTaps
MaxTaps == 4
\* loop iterations explored under SpecHold
HoldFrames == 26

(* --------------------------- fixed point ------------------------------ *)
Scale == 10 * 100

Abs(a) == IF a < 0 THEN -a ELSE a

\* C's float -> int conversion and float division round toward zero
TruncDiv(a, b) ==
    IF (a >= 0) = (b > 0) THEN Abs(a) \div Abs(b) ELSE -(Abs(a) \div Abs(b))

Mul(a, b) == TruncDiv(a * b, Scale)

IntMax == (2^30 - 1) + 2^30
IntMin == -IntMax - 1

\* static_cast<int> of a float that no int holds is undefined; what the
\* usual targets give: x86 (cvttss2si) IntMin for every such value, a
\* saturating target (ARM) IntMax for +inf, IntMin for -inf and 0 for NaN
PosInfToInt == {IntMin, IntMax}
NegInfToInt == {IntMin}
NaNToInt == {IntMin, 0}
UBInts == PosInfToInt \cup NegInfToInt \cup NaNToInt

CosTab ==
    << 1000, 999, 995, 989, 980, 969, 955, 939, 921, 900, 878, 853,
       825, 796, 765, 732, 697, 660, 622, 582, 540, 498, 454, 408, 362,
       315, 267, 219, 170, 121, 71, 21, -29, -79, -129, -178, -227,
       -276, -323, -370, -416 >>

SinTab ==
    << 0, 50, 100, 149, 199, 247, 296, 343, 389, 435, 479, 523, 565,
       605, 644, 682, 717, 751, 783, 813, 841, 867, 891, 913, 932, 949,
       964, 976, 985, 993, 997, 1000, 1000, 997, 992, 984, 974, 961,
       946, 929, 909 >>

\* std::cos and std::sin of k rotSpeed steps, in 1/Scale units
Cos(k) == CosTab[Abs(k) + 1]
Sin(k) == IF k < 0 THEN -SinTab[Abs(k) + 1] ELSE SinTab[k + 1]

(* ------------------------- program constants -------------------------- *)
cx == 1280 \div 2
cy == 720 \div 2
fov == 500
moveSpeed == 16

Keys == {"w", "a", "s", "d", "q", "e", "left", "right", "up", "down"}
\* a key the switch has no case for
OtherSym == "space"
Syms == Keys \cup {OtherSym}

QuitEvent == [type |-> "SDL_QUIT", sym |-> "none"]
KeyEvents == [type : {"SDL_KEYDOWN", "SDL_KEYUP"}, sym : Syms]
Events == {QuitEvent} \cup KeyEvents

Pt(x, y, z) == [x |-> x * Scale, y |-> y * Scale, z |-> z * Scale]

CubeInit ==
    [i \in 0..7 |->
        CASE i = 0 -> Pt(-100, -100, -100)
          [] i = 1 -> Pt(100, -100, -100)
          [] i = 2 -> Pt(100, 100, -100)
          [] i = 3 -> Pt(-100, 100, -100)
          [] i = 4 -> Pt(-100, -100, 100)
          [] i = 5 -> Pt(100, -100, 100)
          [] i = 6 -> Pt(100, 100, 100)
          [] i = 7 -> Pt(-100, 100, 100)]

\* mutant: the last connecting edge ends at the wrong vertex
DrawCallsTypo ==
    << <<0, 1>>, <<1, 2>>, <<2, 3>>, <<3, 0>>,
       <<4, 5>>, <<5, 6>>, <<6, 7>>, <<7, 4>>,
       <<0, 4>>, <<1, 5>>, <<2, 6>>, <<3, 4>> >>

\* the vertex-index pairs of the 12 SDL_RenderDrawLine calls, in call order
DrawCalls ==
    << <<0, 1>>, <<1, 2>>, <<2, 3>>, <<3, 0>>,
       <<4, 5>>, <<5, 6>>, <<6, 7>>, <<7, 4>>,
       <<0, 4>>, <<1, 5>>, <<2, 6>>, <<3, 7>> >>

(* ------------------------------ state --------------------------------- *)
VARIABLES
    pc,         \* position in main
    sdl,        \* "none" | "live" | "released": the SDL subsystem
    window,     \* "none" | "live" | "released"
    renderer,   \* "none" | "live" | "released"
    calls,      \* the SDL lifecycle calls made so far, in order
    stderr,     \* lines written to std::cerr
    exitCode,   \* << >> until main returns, then << 0 >> or << 1 >>
    quit,
    key,        \* key_w .. key_down, by key
    camera, yaw, pitch,
    cube1,
    proj,       \* SDL_Point proj[8] of the current iteration
    out,        \* lines written to std::cout
    frames,     \* loop iterations started
    frameOps,   \* render-side operations done in the current iteration
    lines,      \* SDL_RenderDrawLine calls of the current iteration
    delivered,  \* history: events SDL_PollEvent returned, with their frame
    held,       \* history: consecutive camera updates with only W held at yaw 0
    base        \* history: camera pose before the first of those updates

vars == << pc, sdl, window, renderer, calls, stderr, exitCode, quit, key,
           camera, yaw, pitch, cube1, proj, out, frames, frameOps, lines,
           delivered, held, base >>

resVars == << sdl, window, renderer, calls, stderr, exitCode >>
camVars == << camera, yaw, pitch >>
histVars == << held, base >>

Pose == [camera |-> camera, yaw |-> yaw, pitch |-> pitch]

Init ==
    /\ pc = "SDL_Init"
    /\ sdl = "none" /\ window = "none" /\ renderer = "none"
    /\ calls = << >>
    /\ stderr = << >>
    /\ exitCode = << >>
    /\ quit = FALSE
    /\ key = [k \in Keys |-> FALSE]
    /\ camera = Pt(0, 0, 0) /\ yaw = 0 /\ pitch = 0
    /\ cube1 = CubeInit
    /\ proj = << >>
    /\ out = << >>
    /\ frames = 0
    /\ frameOps = << >>
    /\ lines = << >>
    /\ delivered = << >>
    /\ held = 0
    /\ base = [camera |-> Pt(0, 0, 0), yaw |-> 0, pitch |-> 0]


(* ------------------------- initialisation ----------------------------- *)
\* lines 41-44
SDLInitOk ==
    /\ pc = "SDL_Init"
    /\ sdl' = "live"
    /\ calls' = Append(calls, "SDL_Init")
    /\ pc' = "SDL_CreateWindow"
    /\ UNCHANGED << window, renderer, stderr, exitCode, quit, key, camVars,
                    cube1, proj, out, frames, frameOps, lines, delivered,
                    histVars >>

SDLInitFail ==
    /\ pc = "SDL_Init"
    /\ calls' = Append(calls, "SDL_Init")
    /\ stderr' = Append(stderr, "Couldn't initialize SDL")
    /\ exitCode' = << 1 >>
    /\ pc' = "done"
    /\ UNCHANGED << sdl, window, renderer, quit, key, camVars, cube1, proj,
                    out, frames, frameOps, lines, delivered, histVars >>

\* lines 46-55
CreateWindowOk ==
    /\ pc = "SDL_CreateWindow"
    /\ window' = "live"
    /\ calls' = Append(calls, "SDL_CreateWindow")
    /\ pc' = "SDL_CreateRenderer"
    /\ UNCHANGED << sdl, renderer, stderr, exitCode, quit, key, camVars,
                    cube1, proj, out, frames, frameOps, lines, delivered,
                    histVars >>

\* what a release call does to a resource: releasing one that is not live
\* (never acquired, or released before) is a misuse
Released(st) == IF st = "live" THEN "released" ELSE "misuse"

RECURSIVE After(_, _, _)
\* the state of a resource after the calls cs, release being its release call
After(st, cs, release) ==
    IF cs = << >> THEN st
    ELSE After(IF Head(cs) = release THEN Released(st) ELSE st,
               Tail(cs), release)

\* the calls the window-failure branch makes after the failed creation
WindowFailCalls == << "SDL_Quit" >>

\* mutant: the window-failure branch lacks its return
CreateWindowFailNoReturn ==
    /\ pc = "SDL_CreateWindow"
    /\ calls' = Append(calls, "SDL_CreateWindow")
    /\ stderr' = Append(stderr, "Couldn't create window")
    /\ pc' = "SDL_CreateRenderer"
    /\ UNCHANGED << sdl, window, renderer, exitCode, quit, key, camVars,
                    cube1, proj, out, frames, frameOps, lines, delivered,
                    histVars >>

CreateWindowFail ==
    /\ pc = "SDL_CreateWindow"
    /\ calls' = Append(calls, "SDL_CreateWindow") \o WindowFailCalls
    /\ stderr' = Append(stderr, "Couldn't create window")
    /\ sdl' = After(sdl, WindowFailCalls, "SDL_Quit")
    /\ window' = After(window, WindowFailCalls, "SDL_DestroyWindow")
    /\ renderer' = After(renderer, WindowFailCalls, "SDL_DestroyRenderer")
    /\ exitCode' = << 1 >>
    /\ pc' = "done"
    /\ UNCHANGED << quit, key, camVars, cube1, proj, out,
                    frames, frameOps, lines, delivered, histVars >>

\* lines 57-63
CreateRendererOk ==
    /\ pc = "SDL_CreateRenderer"
    /\ renderer' = "live"
    /\ calls' = Append(calls, "SDL_CreateRenderer")
    /\ pc' = "loop"
    /\ UNCHANGED << sdl, window, stderr, exitCode, quit, key, camVars, cube1,
                    proj, out, frames, frameOps, lines, delivered, histVars >>

\* mutant: the renderer-failure branch forgets the window
RendererFailCallsLeak == << "SDL_Quit" >>

\* the calls the renderer-failure branch makes after the failed creation
RendererFailCalls == << "SDL_DestroyWindow", "SDL_Quit" >>

CreateRendererFail ==
    /\ pc = "SDL_CreateRenderer"
    /\ calls' = Append(calls, "SDL_CreateRenderer") \o RendererFailCalls
    /\ stderr' = Append(stderr, "Couldn't create renderer")
    /\ sdl' = After(sdl, RendererFailCalls, "SDL_Quit")
    /\ window' = After(window, RendererFailCalls, "SDL_DestroyWindow")
    /\ renderer' = After(renderer, RendererFailCalls, "SDL_DestroyRenderer")
    /\ exitCode' = << 1 >>
    /\ pc' = "done"
    /\ UNCHANGED << quit, key, camVars, cube1, proj, out, frames,
                    frameOps, lines, delivered, histVars >>

(* --------------------------- frame loop ------------------------------- *)
\* line 96, condition true: a new iteration starts (F caps the iterations)
LoopEnter(F) ==
    /\ pc = "loop"
    /\ ~quit
    /\ frames < F
    /\ frames' = frames + 1
    /\ frameOps' = << >>
    /\ lines' = << >>
    /\ proj' = << >>
    /\ pc' = "poll"
    /\ UNCHANGED << resVars, quit, key, camVars, cube1, out, delivered,
                    histVars >>

\* line 96, condition false
LoopExit ==
    /\ pc = "loop"
    /\ quit
    /\ pc' = "teardown"
    /\ UNCHANGED << resVars, quit, key, camVars, cube1, proj, out, frames,
                    frameOps, lines, delivered, histVars >>

IsKeyEvent(e) == e.type \in {"SDL_KEYDOWN", "SDL_KEYUP"}
Recognized(e) == IsKeyEvent(e) /\ e.sym \in Keys
Pressed(e) == e.type = "SDL_KEYDOWN"

QuitLine == [tag |-> "Event", sym |-> "none", what |-> "Quit event received."]
KeyLine(e) ==
    [tag |-> "Event", sym |-> e.sym,
     what |-> IF Pressed(e) THEN "pressed" ELSE "released"]

\* lines 99-102
QuitAfter(q, e) == q \/ e.type = "SDL_QUIT"

\* mutant: the poll loop stops handling keys once quit is set
KeyAfterBreak(ks, q, e) ==
    IF Recognized(e) /\ ~q THEN [ks EXCEPT ![e.sym] = Pressed(e)] ELSE ks

\* mutant: the E case assigns key_q (a copied line left unedited)
KeyAfterPaste(ks, q, e) ==
    IF Recognized(e)
    THEN [ks EXCEPT ![IF e.sym = "e" THEN "q" ELSE e.sym] = Pressed(e)]
    ELSE ks

\* lines 103-117, the flag assignments
KeyAfter(ks, q, e) ==
    IF Recognized(e) THEN [ks EXCEPT ![e.sym] = Pressed(e)] ELSE ks

\* mutant: a default case that logs the keys the switch does not know
OutAfterDefault(o, q, e) ==
    (IF e.type = "SDL_QUIT" THEN Append(o, QuitLine) ELSE o)
        \o (IF IsKeyEvent(e) THEN << KeyLine(e) >> ELSE << >>)

\* lines 100 and 106-115, the std::cout lines
OutAfter(o, q, e) ==
    (IF e.type = "SDL_QUIT" THEN Append(o, QuitLine) ELSE o)
        \o (IF Recognized(e) THEN << KeyLine(e) >> ELSE << >>)

\* lines 98-118: SDL_PollEvent returned 1 with event e, and the body ran
PollEvent(E) ==
    /\ pc = "poll"
    /\ \E e \in E :
          /\ quit' = QuitAfter(quit, e)
          /\ key' = KeyAfter(key, quit, e)
          /\ out' = OutAfter(out, quit, e)
          /\ delivered' = Append(delivered, [ev |-> e, frame |-> frames])
    /\ pc' = "poll"
    /\ UNCHANGED << resVars, camVars, cube1, proj, frames, frameOps, lines,
                    histVars >>

\* mutant: a quit seen while polling skips the rest of the iteration
PollEmptyBreak ==
    /\ pc = "poll"
    /\ pc' = IF quit THEN "loop" ELSE "update"
    /\ UNCHANGED << resVars, quit, key, camVars, cube1, proj, out, frames,
                    frameOps, lines, delivered, histVars >>

\* line 98: SDL_PollEvent returned 0
PollEmpty ==
    /\ pc = "poll"
    /\ pc' = "update"
    /\ UNCHANGED << resVars, quit, key, camVars, cube1, proj, out, frames,
                    frameOps, lines, delivered, histVars >>

AnyKey(ks) == \E k \in Keys : ks[k]

DebugLine ==
    [tag |-> "Debug", sym |-> "none", what |-> "Camera",
     camera |-> camera, yaw |-> yaw, pitch |-> pitch]

\* lines 128-129 (and 130-131 for pitch): dec and inc are the two key flags
Rotate(angle, dec, inc) ==
    LET a1 == IF dec THEN angle - 1 ELSE angle
    IN  IF inc THEN a1 + 1 ELSE a1

\* mutant: sin and cos exchanged in the W branch
ForwardSwapped(c, y) ==
    [c EXCEPT !.x = @ + moveSpeed * Cos(y), !.z = @ + moveSpeed * Sin(y)]

\* lines 142-145: y is the yaw the statement reads
Forward(c, y) ==
    [c EXCEPT !.x = @ + moveSpeed * Sin(y), !.z = @ + moveSpeed * Cos(y)]

\* lines 134-151, in statement order; y is the yaw the statements read
Move(c, y, ks) ==
    LET c1 == IF ks["a"]
              THEN [c EXCEPT !.x = @ - moveSpeed * Cos(y),
                             !.z = @ + moveSpeed * Sin(y)]
              ELSE c
        c2 == IF ks["d"]
              THEN [c1 EXCEPT !.x = @ + moveSpeed * Cos(y),
                              !.z = @ - moveSpeed * Sin(y)]
              ELSE c1
        c3 == IF ks["w"] THEN Forward(c2, y) ELSE c2
        c4 == IF ks["s"]
              THEN [c3 EXCEPT !.x = @ - moveSpeed * Sin(y),
                              !.z = @ - moveSpeed * Cos(y)]
              ELSE c3
        c5 == IF ks["q"] THEN [c4 EXCEPT !.y = @ - moveSpeed * Scale] ELSE c4
    IN  IF ks["e"] THEN [c5 EXCEPT !.y = @ + moveSpeed * Scale] ELSE c5

\* mutant: the movement is computed before the rotation is applied
MoveYawStart(yawBefore, yawAfter) == yawBefore

\* the yaw that the movement statements of lines 134-149 read
MoveYaw(yawBefore, yawAfter) == yawAfter

OnlyW(ks) == \A k \in Keys : ks[k] = (k = "w")

\* lines 120-151: the debug line, the rotation, then the movement
Update ==
    /\ pc = "update"
    /\ out' = IF AnyKey(key) THEN Append(out, DebugLine) ELSE out
    /\ yaw' = Rotate(yaw, key["left"], key["right"])
    /\ pitch' = Rotate(pitch, key["up"], key["down"])
    /\ camera' = Move(camera, MoveYaw(yaw, yaw'), key)
    /\ frameOps' = Append(frameOps, "update")
    /\ held' = IF OnlyW(key) /\ yaw = 0 THEN held + 1 ELSE 0
    /\ base' = IF OnlyW(key) /\ yaw = 0 /\ held = 0 THEN Pose ELSE base
    /\ pc' = "clear"
    /\ UNCHANGED << resVars, quit, key, cube1, proj, frames, lines,
                    delivered >>

\* lines 154-155
Clear ==
    /\ pc = "clear"
    /\ frameOps' = Append(frameOps, "clear")
    /\ pc' = "project"
    /\ UNCHANGED << resVars, quit, key, camVars, cube1, proj, out, frames,
                    lines, delivered, histVars >>


(* ---------------------------- projection ------------------------------ *)
\* lines 33-37: static_cast<int>(c + v * factor) with factor = fov / den;
\* c in pixels, v and den in 1/Scale units.  A zero den (+0.0, the sum of
\* two opposite floats) makes factor +inf, so v * factor is +inf, -inf or
\* NaN by the sign of v, and so is the sum converted.  (At this resolution
\* every finite quotient fits an int.)
ToScreen(c, v, den) ==
    IF den # 0 THEN {TruncDiv(c * den + v * fov, den)}
    ELSE IF v > 0 THEN PosInfToInt
    ELSE IF v < 0 THEN NegInfToInt
    ELSE NaNToInt

\* line 33: the divisor zz2 + fov of p seen from camera c at yaw y, pitch t
Divisor(p, c, y, t) ==
    LET x == p.x - c.x
        yy == p.y - c.y
        z == p.z - c.z
        zz == Mul(x, Sin(y)) + Mul(z, Cos(y))
    IN  Mul(yy, Sin(t)) + Mul(zz, Cos(t)) + fov * Scale

\* lines 15-38: the points project may return
project(p, c, y, t) ==
    LET x == p.x - c.x
        yy == p.y - c.y
        z == p.z - c.z
        xz == Mul(x, Cos(y)) - Mul(z, Sin(y))
        zz == Mul(x, Sin(y)) + Mul(z, Cos(y))
        yz == Mul(yy, Cos(t)) - Mul(zz, Sin(t))
        den == Divisor(p, c, y, t)
    IN  { [x |-> sx, y |-> sy] :
            sx \in ToScreen(cx, xz, den), sy \in ToScreen(cy, yz, den) }

RECURSIVE ProjArrays(_)
\* lines 159-160: the arrays the loop over i = n .. 7 may fill in
ProjArrays(n) ==
    IF n = 8 THEN { << >> }
    ELSE { (n :> pt) @@ rest :
             pt \in project(cube1[n], camera, yaw, pitch),
             rest \in ProjArrays(n + 1) }

\* the vertices whose projection divides by zero in the current pose
ZeroDivisors == { i \in 0..7 : Divisor(cube1[i], camera, yaw, pitch) = 0 }

\* mutant: a zero divisor is reported and the frame is not drawn
ProjectGuarded ==
    /\ pc = "project"
    /\ frameOps' = Append(frameOps, "project")
    /\ IF ZeroDivisors = {}
       THEN /\ proj' \in ProjArrays(0)
            /\ pc' = "draw"
            /\ UNCHANGED stderr
       ELSE /\ proj' = proj
            /\ stderr' = Append(stderr, "division by zero")
            /\ pc' = "loop"
    /\ UNCHANGED << sdl, window, renderer, calls, exitCode, quit, key,
                    camVars, cube1, out, frames, lines, delivered,
                    histVars >>

\* lines 158-160
Project ==
    /\ pc = "project"
    /\ proj' \in ProjArrays(0)
    /\ frameOps' = Append(frameOps, "project")
    /\ pc' = "draw"
    /\ UNCHANGED << resVars, quit, key, camVars, cube1, out, frames, lines,
                    delivered, histVars >>

\* one SDL_RenderDrawLine(renderer, proj[a].x, proj[a].y, proj[b].x, proj[b].y)
DrawLine(ab) ==
    [a |-> ab[1], b |-> ab[2],
     x1 |-> proj[ab[1]].x, y1 |-> proj[ab[1]].y,
     x2 |-> proj[ab[2]].x, y2 |-> proj[ab[2]].y]

\* lines 162-177
Draw ==
    /\ pc = "draw"
    /\ lines' = lines \o [n \in 1..Len(DrawCalls) |-> DrawLine(DrawCalls[n])]
    /\ frameOps' = Append(frameOps, "draw")
    /\ pc' = "present"
    /\ UNCHANGED << resVars, quit, key, camVars, cube1, proj, out, frames,
                    delivered, histVars >>

\* line 179
Present ==
    /\ pc = "present"
    /\ frameOps' = Append(frameOps, "present")
    /\ pc' = "delay"
    /\ UNCHANGED << resVars, quit, key, camVars, cube1, proj, out, frames,
                    lines, delivered, histVars >>

\* line 180, then back to the loop condition
Delay ==
    /\ pc = "delay"
    /\ frameOps' = Append(frameOps, "delay")
    /\ pc' = "loop"
    /\ UNCHANGED << resVars, quit, key, camVars, cube1, proj, out, frames,
                    lines, delivered, histVars >>

(* ----------------------------- teardown ------------------------------- *)
\* lines 183-185
TeardownCalls == << "SDL_DestroyRenderer", "SDL_DestroyWindow", "SDL_Quit" >>

\* lines 183-186
Teardown ==
    /\ pc = "teardown"
    /\ calls' = calls \o TeardownCalls
    /\ sdl' = After(sdl, TeardownCalls, "SDL_Quit")
    /\ window' = After(window, TeardownCalls, "SDL_DestroyWindow")
    /\ renderer' = After(renderer, TeardownCalls, "SDL_DestroyRenderer")
    /\ exitCode' = << 0 >>
    /\ pc' = "done"
    /\ UNCHANGED << stderr, quit, key, camVars, cube1, proj, out, frames,
                    frameOps, lines, delivered, histVars >>

(* --------------------------- environments ----------------------------- *)
\* any event, at any poll
AnyInput == IF Len(delivered) < MaxEvents THEN Events ELSE {}

\* the user works one key only (any of the eleven), and may close the window
SameKey(e) ==
    \A n \in 1..Len(delivered) :
        IsKeyEvent(delivered[n].ev) => delivered[n].ev.sym = e.sym

TapInput ==
    IF Len(delivered) < MaxTaps
    THEN {QuitEvent} \cup { e \in KeyEvents : SameKey(e) }
    ELSE {}

\* the user sets W and LEFT before the first frame is drawn and then keeps
\* the keys as they are; the window may be closed at any poll
HoldKeys == {"w", "left"}

HoldInput ==
    (IF frames = 1 /\ Len(delivered) < MaxEvents
     THEN { e \in KeyEvents : e.sym \in HoldKeys } ELSE {})
        \cup (IF quit THEN {} ELSE {QuitEvent})

\* the steps that take no input
Steps ==
    \/ SDLInitOk \/ SDLInitFail
    \/ CreateWindowOk \/ CreateWindowFail
    \/ CreateRendererOk \/ CreateRendererFail
    \/ LoopExit
    \/ PollEmpty
    \/ Update \/ Clear \/ Project \/ Draw \/ Present \/ Delay
    \/ Teardown

Next == Steps \/ LoopEnter(MaxFrames) \/ PollEvent(AnyInput)
NextTaps == Steps \/ LoopEnter(MaxFrames) \/ PollEvent(TapInput)
NextHold == Steps \/ LoopEnter(HoldFrames) \/ PollEvent(HoldInput)

Spec == Init /\ [][Next]_vars
SpecTaps == Init /\ [][NextTaps]_vars
SpecHold == Init /\ [][NextHold]_vars


(* ------------------------- shared vocabulary -------------------------- *)
\* this step is the poll-loop body handling event e
Handled(e) == delivered' = Append(delivered, [ev |-> e, frame |-> frames])

\* what one whole iteration does after polling, in order
FullFrame == << "update", "clear", "project", "draw", "present", "delay" >>

Did(op) == \E n \in 1..Len(frameOps) : frameOps[n] = op

InitialPose == [camera |-> Pt(0, 0, 0), yaw |-> 0, pitch |-> 0]

\* the loop has been left through its condition
LoopLeft == pc = "teardown" \/ (pc = "done" /\ exitCode = << 0 >>)

(* -------------------------------- C1 ---------------------------------- *)
\* C1 as claimed: once quit is set during a poll, a recognized key event
\* handled later in that poll changes no key flag and writes no log line.
C1_NoEventAfterQuit ==
    [][\A e \in Events :
          (pc = "poll" /\ quit /\ Handled(e) /\ Recognized(e))
              => (key' = key /\ out' = out)]_vars

\* C1 amended: the poll loop keeps draining after quit; a recognized key
\* event handled after the quit event of the same poll sets the key's flag
\* to pressed/released and writes its transition line, and quit stays set.
C1_EventAfterQuitProcessed ==
    [][\A e \in Events :
          (pc = "poll" /\ quit /\ Handled(e) /\ Recognized(e))
              => /\ key' = [key EXCEPT ![e.sym] = Pressed(e)]
                 /\ out' = Append(out, KeyLine(e))
                 /\ quit'
                 /\ pc' = "poll"]_vars

\* a key-down handled after the quit event of the same poll has set its flag
C1_Witness ==
    \E m, n \in 1..Len(delivered) :
        /\ m < n
        /\ delivered[m].ev = QuitEvent
        /\ delivered[m].frame = delivered[n].frame
        /\ Recognized(delivered[n].ev)
        /\ Pressed(delivered[n].ev)
        /\ n = Len(delivered)
        /\ key[delivered[n].ev.sym]
        /\ out[Len(out)] = KeyLine(delivered[n].ev)
        /\ quit

(* -------------------------------- C2 ---------------------------------- *)
\* C2: the loop is left only with quit set by a quit event polled in the
\* last iteration started, and that iteration has done its camera update,
\* clear, projection of 8 vertices, 12 line draws, present and sleep once
\* each, in this order; no iteration starts after it.
C2_QuitFrameCompletes ==
    LoopLeft =>
        /\ quit
        /\ \E n \in 1..Len(delivered) : delivered[n].ev = QuitEvent
        /\ \A n \in 1..Len(delivered) :
              delivered[n].ev = QuitEvent => delivered[n].frame = frames
        /\ frameOps = FullFrame
        /\ DOMAIN proj = 0..7
        /\ Len(lines) = 12

\* a clean exit whose quit event came in the second iteration
C2_Witness ==
    /\ pc = "done" /\ exitCode = << 0 >>
    /\ frames = 2
    /\ frameOps = FullFrame

(* -------------------------------- C3 ---------------------------------- *)
OnlyLeftAndW(ks) == \A k \in Keys : ks[k] = (k \in {"left", "w"})

\* C3 as claimed: with yaw-left and forward held, the frame changes yaw and
\* position, and the translation uses the yaw from the start of the frame.
C3_MoveUsesStartYaw ==
    [][(pc = "update" /\ OnlyLeftAndW(key))
          => /\ yaw' = yaw - 1
             /\ camera' # camera
             /\ camera' = Forward(camera, yaw)]_vars

\* C3 amended: with yaw-left and forward held, the frame changes yaw and
\* position, and the translation uses the yaw already updated by that
\* frame's rotation step.
C3_MoveUsesUpdatedYaw ==
    [][(pc = "update" /\ OnlyLeftAndW(key))
          => /\ yaw' = yaw - 1
             /\ camera' # camera
             /\ camera' = Forward(camera, yaw')
             /\ camera' # Forward(camera, yaw)]_vars

\* the first update with LEFT and W held has moved the camera along yaw -1
C3_Witness ==
    /\ pc = "clear"
    /\ OnlyLeftAndW(key)
    /\ yaw = -1
    /\ camera = Forward(Pt(0, 0, 0), -1)

(* -------------------------------- C4 ---------------------------------- *)
\* C4: after N consecutive frames with only W held, starting at yaw 0,
\* camera.z has grown by exactly N x 16 and camera.x, camera.y, yaw and
\* pitch are what they were before the first of these frames.
C4_ForwardOnly ==
    held > 0 =>
        /\ base.yaw = 0
        /\ camera.z = base.camera.z + held * 16 * Scale
        /\ camera.x = base.camera.x
        /\ camera.y = base.camera.y
        /\ yaw = base.yaw
        /\ pitch = base.pitch

\* 25 such frames in a row
C4_Witness == held = 25 /\ camera.z = base.camera.z + 400 * Scale

(* -------------------------------- C5 ---------------------------------- *)
\* the events delivered for key k, in order
EventsOf(k) ==
    LET evs == [n \in 1..Len(delivered) |-> delivered[n].ev]
    IN  SelectSeq(evs, LAMBDA e : IsKeyEvent(e) /\ e.sym = k)

\* the transition lines written for key k, in order
LinesOf(k) == SelectSeq(out, LAMBDA l : l.tag = "Event" /\ l.sym = k)

Taps(k) ==
    << [type |-> "SDL_KEYDOWN", sym |-> k], [type |-> "SDL_KEYUP", sym |-> k],
       [type |-> "SDL_KEYDOWN", sym |-> k], [type |-> "SDL_KEYUP", sym |-> k] >>

\* C5: for every recognized key, its flag is true exactly when the last
\* event delivered for it was a key-down; and after down, up, down, up, in
\* one frame or several, the flag is false and the key's log lines are
\* exactly pressed, released, pressed, released.
C5_FlagFollowsLastEvent ==
    \A k \in Keys :
        LET evs == EventsOf(k) IN
        /\ key[k] = (evs # << >> /\ evs[Len(evs)].type = "SDL_KEYDOWN")
        /\ evs = Taps(k) =>
              /\ ~key[k]
              /\ [n \in 1..Len(LinesOf(k)) |-> LinesOf(k)[n].what]
                    = << "pressed", "released", "pressed", "released" >>

\* a key tapped twice, the taps spread over two frames
C5_Witness ==
    \E k \in Keys :
        /\ EventsOf(k) = Taps(k)
        /\ delivered[1].frame = 1
        /\ delivered[Len(delivered)].frame = 2
        /\ pc = "update"

(* -------------------------------- C6 ---------------------------------- *)
\* C6: handling a key-down or key-up of a key that is none of the 10
\* recognized keys changes no key flag, does not set quit, writes nothing to
\* standard output or standard error, and the poll loop goes on.
C6_UnknownKeyDropped ==
    [][\A e \in Events :
          (Handled(e) /\ IsKeyEvent(e) /\ e.sym \notin Keys)
              => /\ key' = key
                 /\ quit' = quit
                 /\ out' = out
                 /\ stderr' = stderr
                 /\ exitCode' = exitCode
                 /\ pc' = "poll"]_vars

\* an unrecognized key was pressed while W was down: nothing but W's line
C6_Witness ==
    /\ Len(delivered) = 2
    /\ delivered[1].ev = [type |-> "SDL_KEYDOWN", sym |-> "w"]
    /\ delivered[2].ev = [type |-> "SDL_KEYDOWN", sym |-> OtherSym]
    /\ pc = "poll"
    /\ Len(out) = 1
    /\ OnlyW(key)
    /\ ~quit

(* -------------------------------- C7 ---------------------------------- *)
Count(cs, c) == Cardinality({ n \in 1..Len(cs) : cs[n] = c })
Called(c) == Count(calls, c) > 0

\* an initialisation call was made and left its resource unacquired
InitFailed ==
    \/ Called("SDL_Init") /\ sdl = "none"
    \/ Called("SDL_CreateWindow") /\ window = "none"
    \/ Called("SDL_CreateRenderer") /\ renderer = "none"

\* C7: main returns 0 only after a quit from the running loop with all three
\* initialisations done; a failed initialisation makes it return 1 at once,
\* with one message on standard error, no frame run and no call retried.
C7_ExitStatus ==
    /\ (pc = "done") = (exitCode # << >>)
    /\ exitCode = << 0 >> =>
          /\ ~InitFailed
          /\ quit /\ frames >= 1
          /\ stderr = << >>
    /\ InitFailed =>
          /\ pc = "done" /\ exitCode = << 1 >>
          /\ Len(stderr) = 1
          /\ frames = 0
          /\ \A c \in {"SDL_Init", "SDL_CreateWindow", "SDL_CreateRenderer"} :
                Count(calls, c) <= 1
    /\ exitCode = << 1 >> => InitFailed

\* the window could not be created
C7_Witness ==
    /\ exitCode = << 1 >>
    /\ sdl # "none" /\ window = "none"
    /\ stderr = << "Couldn't create window" >>

(* -------------------------------- C8 ---------------------------------- *)
ReleaseCalls == {"SDL_DestroyRenderer", "SDL_DestroyWindow", "SDL_Quit"}

\* C8: no resource is ever released twice or without having been acquired;
\* when main has returned, none is still live, and the release calls made
\* are, in this order, drawing surface, window, platform subsystem, one for
\* each resource that was acquired.
C8_Teardown ==
    /\ \A st \in {sdl, window, renderer} : st # "misuse"
    /\ pc = "done" =>
          /\ \A st \in {sdl, window, renderer} : st # "live"
          /\ SelectSeq(calls, LAMBDA c : c \in ReleaseCalls)
                = (IF renderer = "released"
                   THEN << "SDL_DestroyRenderer" >> ELSE << >>)
                  \o (IF window = "released"
                      THEN << "SDL_DestroyWindow" >> ELSE << >>)
                  \o (IF sdl = "released" THEN << "SDL_Quit" >> ELSE << >>)
          /\ (sdl = "none") = (calls = << "SDL_Init" >>)
          /\ (window = "none") => Len(calls) <= 3
          /\ (renderer = "released") = (exitCode = << 0 >>)

\* the renderer could not be created: window, then SDL, were released
C8_Witness ==
    /\ pc = "done"
    /\ renderer = "none" /\ window = "released" /\ sdl = "released"
    /\ calls = << "SDL_Init", "SDL_CreateWindow", "SDL_CreateRenderer",
                  "SDL_DestroyWindow", "SDL_Quit" >>

(* -------------------------------- C9 ---------------------------------- *)
EdgePairs ==
    { <<0, 1>>, <<1, 2>>, <<2, 3>>, <<3, 0>>, <<4, 5>>, <<5, 6>>,
      <<6, 7>>, <<7, 4>>, <<0, 4>>, <<1, 5>>, <<2, 6>>, <<3, 7>> }

\* C9: the cube's vertices never change, and a frame's draw step issues
\* exactly 12 segments, one per pair of EdgePairs, each between the
\* projections of its two vertices, whatever the camera pose and keys.
C9_Edges ==
    /\ cube1 = CubeInit
    /\ IF Did("draw")
       THEN /\ Len(lines) = 12
            /\ { << lines[n].a, lines[n].b >> : n \in 1..12 } = EdgePairs
            /\ Cardinality(EdgePairs) = 12
            /\ \A n \in 1..12 :
                  /\ lines[n].x1 = proj[lines[n].a].x
                  /\ lines[n].y1 = proj[lines[n].a].y
                  /\ lines[n].x2 = proj[lines[n].b].x
                  /\ lines[n].y2 = proj[lines[n].b].y
       ELSE lines = << >>

\* a frame drawn with the camera moved and turned
C9_Witness ==
    /\ Did("draw")
    /\ Len(lines) = 12
    /\ yaw # 0
    /\ camera # Pt(0, 0, 0)

(* -------------------------------- C10 --------------------------------- *)
\* C10: 25 frames of W alone from the initial pose put the camera at
\* z = 400, where the divisor is zero for exactly the four vertices with
\* z = -100; and a frame projected with a zero divisor reports nothing, gives
\* those vertices the outcome of the unguarded division, and still draws its
\* 12 lines, presents and sleeps.
C10_ZeroDivisor ==
    /\ (held = 25 /\ base = InitialPose) =>
          /\ camera.z = 400 * Scale
          /\ ZeroDivisors = { i \in 0..7 : cube1[i].z = -100 * Scale }
          /\ ZeroDivisors = {0, 1, 2, 3}
    /\ (ZeroDivisors # {} /\ Did("project")) =>
          /\ stderr = << >>
          /\ pc \in {"draw", "present", "delay", "loop", "teardown", "done"}
          /\ pc # "done" => exitCode = << >>
          /\ pc = "done" => exitCode = << 0 >>
          /\ DOMAIN proj = 0..7
          /\ \A i \in ZeroDivisors : proj[i].x \in UBInts /\ proj[i].y \in UBInts
          /\ pc \in {"loop", "teardown", "done"} =>
                frameOps = FullFrame /\ Len(lines) = 12

\* the 25th frame of W alone: divided by zero, drawn and presented
C10_Witness ==
    /\ held = 25 /\ base = InitialPose
    /\ ZeroDivisors = {0, 1, 2, 3}
    /\ pc = "delay"
    /\ Did("project") /\ Did("draw") /\ Did("present")
    /\ Len(lines) = 12

====
